---- MODULE Spec2Model ----
(***************************************************************************)
(* Model of the smart-irrigation Flask application (src/main.py): the      *)
(* /api/watering_decision route and the / (set_field) route, over the      *)
(* `decisions` and `fields` tables.                                        *)
(*                                                                         *)
(* Units.  Python floats are modelled by scaled integers:                  *)
(*   rain and ET0 in tenths of a millimetre (0.3 mm = 3, 3.0 mm = 30),     *)
(*   kc in tenths, soil moisture and humidity in whole percent,            *)
(*   area in whole square metres, soil depth in millimetres (0.2 m = 200), *)
(*   temperatures in whole degrees.                                        *)
(*                                                                         *)
(* Optional values.  A Python value that may be None is a sequence of      *)
(* length at most one: << >> is None, <<v>> is the value v.                *)
(*                                                                         *)
(* Text.  A decision text is the sequence of its fragments; Python's       *)
(* substring test `"No watering needed" in decision_text` is the test      *)
(* that the fragment occurs in the sequence.  The empty string is << >>.   *)
(***************************************************************************)
EXTENDS Integers, Sequences, FiniteSets, TLC

VARIABLES
    fields,      \* rows of table `fields`, in id order
    decisions,   \* rows of table `decisions`, in id order
    response,    \* the HTTP response of the last request served
    call         \* what the last request's handler did on its way

vars == <<fields, decisions, response, call>>

\* ------------------------------------------------------------------ bounds

\* watering_decision requests with sensor data are served while the
\* decisions table holds fewer rows than this.
MaxDecisions == 1

\* ------------------------------------------------------- optional values

None == << >>

Some(v) == <<v>>

\* Python's `x or d`: d when x is None or zero.
OrDefault(x, d) == IF x = None \/ x[1] = 0 THEN d ELSE x[1]

\* ------------------------------------------------------------ text pieces

NoWateringNeeded == "No watering needed"

TextSufficient == <<NoWateringNeeded, "; soil moisture sufficient.">>

TextRainToday == <<NoWateringNeeded, "; rain expected today.">>

TextRainTomorrow ==
    <<NoWateringNeeded, "; rain expected tomorrow and soil not critically low.">>

TextMinimal ==
    <<"Minimal watering recommended", "; soil critically low but rain tomorrow.">>

TextLowHumidity == <<"Watering needed", "; low humidity and no rain expected.">>

TextEmpty == << >>

\* f"Warning: water deficit detected, {water_amount} liters needed."
TextWarning(water_amount) ==
    <<"Warning: water deficit detected, ", ToString(water_amount), " liters needed.">>

\* Python's `fragment in text`.
Contains(text, fragment) == \E i \in DOMAIN text : text[i] = fragment

\* --------------------------------------------------------------- constants

moisture_threshold == 30

critical_moisture == 10

\* The literal 0.3 of the rain comparisons, in tenths of a millimetre.
RainSignificant == 3

\* The literal 3.0 of `get_et0_from_openmeteo(...) or 3.0`, in tenths.
Et0Default == 30

\* The literal 4 of `t1 > t0 + 4`.
TempSpike == 4

\* The literal 30 of `humidity < 30`.
LowHumidity == 30

DefaultCrop == "banana"

\* date.today(), as an opaque date.
Today == "today"

DefaultArea == 10

\* 0.2 m, in millimetres.
DefaultSoilDepth == 200

\* ------------------------------------------------------------ input sets

\* Readings get_sensor_data() may return: the latest row of `sensors`, or the
\* "none available" sentinel, whose timestamp is None.
SoilValues == {5, 10, 20, 30}

HumidityValues == {20, 30, 90}

NoReading == [soil_moisture |-> 0, humidity |-> 0, timestamp |-> None]

Sensors ==
    {NoReading} \cup
    {[soil_moisture |-> s, humidity |-> h, timestamp |-> Some("t")] :
        s \in SoilValues, h \in HumidityValues}

\* What get_daily_weather_forecast() may return: nothing, or a forecast whose
\* sequences may be short and whose entries may be None.
Forecast(p, t) == Some([precipitation |-> p, max_temperatures |-> t])

Forecasts ==
    { None,
      Forecast(<< >>, << >>),
      Forecast(<<Some(4)>>, <<Some(30)>>),
      Forecast(<<Some(0), Some(3)>>, <<Some(30), Some(35)>>),
      Forecast(<<Some(3), Some(4)>>, <<Some(30), Some(34)>>),
      Forecast(<<Some(0), None>>, <<Some(30), Some(31)>>),
      Forecast(<<None, Some(4)>>, <<Some(30), Some(31)>>),
      Forecast(<<Some(0), Some(0)>>, <<None, Some(31)>>) }

\* What get_et0_from_openmeteo() may return, in tenths of a millimetre.
Et0Fetches == {None, Some(50)}

\* The kc calculate_dynamic_kc_for_crop() may return, in tenths.
KcValues == {10}

\* The forms a POST to / may carry; an absent form field is None.
Forms ==
    {[crop |-> None, sow_date |-> None, area |-> None, soil_depth |-> None]} \cup
    {[crop |-> Some(c), sow_date |-> Some("2024-06-01"),
      area |-> Some(a), soil_depth |-> Some(200)] :
        c \in {"maize"}, a \in {100}}

\* ------------------------------------------------- watering_decision parts

\* NoSensorData with the early return lost.
NoSensorData_never(sensor) == FALSE

\* if sensor['timestamp'] is None
NoSensorData(sensor) == sensor.timestamp = None

\* SELECT crop, sow_date, area, soil_depth FROM fields LIMIT 1, or the
\* defaults when the table has no row.
FieldConfig(rows) ==
    IF rows # << >>
    THEN [crop |-> rows[1].crop, sow_date |-> rows[1].sow_date,
          area |-> rows[1].area, soil_depth |-> rows[1].soil_depth]
    ELSE [crop |-> DefaultCrop, sow_date |-> Today,
          area |-> DefaultArea, soil_depth |-> DefaultSoilDepth]

\* get_et0_from_openmeteo(latitude, longitude) or 3.0
Et0(et0_fetched) == OrDefault(et0_fetched, Et0Default)

\* daily_forecast.get('precipitation', []) and .get('max_temperatures', [])
Precipitation(daily_forecast) ==
    IF daily_forecast = None THEN << >> ELSE daily_forecast[1].precipitation

MaxTemperatures(daily_forecast) ==
    IF daily_forecast = None THEN << >> ELSE daily_forecast[1].max_temperatures

\* predicted_rain: 0.0, or float(precipitation[1] or 0.0) when the forecast
\* has at least two precipitation entries.
predicted_rain(daily_forecast) ==
    IF Len(Precipitation(daily_forecast)) >= 2
    THEN OrDefault(Precipitation(daily_forecast)[2], 0)
    ELSE 0

\* today_prec: precipitation[0] as it is (possibly None) when the forecast
\* has a precipitation entry, else 0.0.
today_prec(daily_forecast) ==
    IF Precipitation(daily_forecast) # << >>
    THEN Precipitation(daily_forecast)[1]
    ELSE Some(0)

\* `today_prec > 0.3` raises TypeError when today_prec is None; the
\* comparison is evaluated only when soil < moisture_threshold.
RuleStageRaises(soil, daily_forecast) ==
    /\ ~(soil >= moisture_threshold)
    /\ today_prec(daily_forecast) = None

\* decision_text with rule 3 lacking its `soil >= critical_moisture` test.
decision_text_rule3_unguarded(soil, humidity, today, tomorrow_prec) ==
    IF soil >= moisture_threshold
    THEN TextSufficient
    ELSE IF today > RainSignificant
         THEN TextRainToday
         ELSE IF tomorrow_prec > RainSignificant
              THEN TextRainTomorrow
              ELSE IF humidity < LowHumidity
                   THEN TextLowHumidity
                   ELSE TextEmpty

\* The if/elif chain that sets decision_text, for a numeric today_prec.
decision_text(soil, humidity, today, tomorrow_prec) ==
    IF soil >= moisture_threshold
    THEN TextSufficient
    ELSE IF today > RainSignificant
         THEN TextRainToday
         ELSE IF tomorrow_prec > RainSignificant /\ soil >= critical_moisture
              THEN TextRainTomorrow
              ELSE IF soil < critical_moisture /\ tomorrow_prec > RainSignificant
                   THEN TextMinimal
                   ELSE IF humidity < LowHumidity
                        THEN TextLowHumidity
                        ELSE TextEmpty

\* Reconcile that never rewrites the text.
Reconcile_never(text, water_amount) == text

\* Reconcile that rewrites every text when liters are due.
Reconcile_any(text, water_amount) ==
    IF water_amount > 0 THEN TextWarning(water_amount) ELSE text

\* Reconcile that also supplies a text when the rule stage set none.
Reconcile_fills(text, water_amount) ==
    IF (Contains(text, NoWateringNeeded) \/ text = TextEmpty) /\ water_amount > 0
    THEN TextWarning(water_amount)
    ELSE text

\* if "No watering needed" in decision_text and water_amount > 0: ...
Reconcile(text, water_amount) ==
    IF Contains(text, NoWateringNeeded) /\ water_amount > 0
    THEN TextWarning(water_amount)
    ELSE text

\* int(water_amount): calculate_water_amount returns round(...), a Python int,
\* and int() of an int is that int.
IntOf(water_amount) == water_amount

\* DecisionRow that stores liters only with a "Watering needed" text.
DecisionRow_by_category(rows, text, water_amount) ==
    [id |-> Len(rows) + 1, decision |-> text,
     water_amount |-> IF Contains(text, "Watering needed")
                      THEN IntOf(water_amount) ELSE 0]

\* INSERT INTO decisions (decision, water_amount) VALUES (?, ?)
DecisionRow(rows, text, water_amount) ==
    [id |-> Len(rows) + 1, decision |-> text, water_amount |-> IntOf(water_amount)]

\* condition with `<=` for `<` at the critical threshold.
condition_lte(soil) ==
    IF soil <= critical_moisture
    THEN "Poor - critically low moisture"
    ELSE IF soil < moisture_threshold
         THEN "Fair - moisture below threshold"
         ELSE "Good"

\* condition
condition(soil) ==
    IF soil < critical_moisture
    THEN "Poor - critically low moisture"
    ELSE IF soil < moisture_threshold
         THEN "Fair - moisture below threshold"
         ELSE "Good"

\* Whether the temperature comparison is reached.
HasTwoTemperatures(daily_forecast) == Len(MaxTemperatures(daily_forecast)) >= 2

\* `t1 > t0 + 4` raises TypeError when either temperature is None.
TempWarnRaises(daily_forecast) ==
    /\ HasTwoTemperatures(daily_forecast)
    /\ \/ MaxTemperatures(daily_forecast)[1] = None
       \/ MaxTemperatures(daily_forecast)[2] = None

\* temp_warn, when the comparison does not raise.
temp_warn(daily_forecast) ==
    IF /\ HasTwoTemperatures(daily_forecast)
       /\ MaxTemperatures(daily_forecast)[2][1]
            > MaxTemperatures(daily_forecast)[1][1] + TempSpike
    THEN Some("High temperature spike expected tomorrow.")
    ELSE None

\* Python's round() of the fraction n / d, n >= 0 and d > 0 even: half to even.
RoundHalfEven(n, d) ==
    LET q == n \div d
        r == n % d
    IN  IF 2 * r < d THEN q
        ELSE IF 2 * r > d THEN q + 1
        ELSE IF q % 2 = 0 THEN q ELSE q + 1

\* The humidity correction, in tenths: 1.2 below 30 %, 0.9 above 80 %.
HumidityFactor(humidity) ==
    IF humidity < 30 THEN 12 ELSE IF humidity > 80 THEN 9 ELSE 10

\* calculate_water_amount(soil, area, soil_depth, predicted_rain, et0, kc,
\* humidity), section 4.2 of the specification:
\*   etc_mm = et0 * kc;  current_mm = soil / 100 * soil_depth * 1000;
\*   deficit_mm = max(0, etc_mm - current_mm / area - predicted_rain);
\*   deficit_mm *= 1.2 | 0.9 | 1;  liters = round(deficit_mm * area).
\* With et0, kc and rain in tenths and soil_depth in millimetres,
\* 100 * area * deficit_mm = et0 * kc * area - soil * soil_depth - 10 * rain * area.
calculate_water_amount(soil, area, soil_depth, rain, et0, kc, humidity) ==
    LET scaled == et0 * kc * area - soil * soil_depth - 10 * rain * area
        deficit == IF scaled > 0 THEN scaled ELSE 0
    IN  RoundHalfEven(deficit * HumidityFactor(humidity), 1000)

\* The `result` object of the 200 response (the fields the engine computes).
Result(config, et0, kc, soil, humidity, rain, text, water_amount, daily_forecast) ==
    [crop |-> config.crop,
     sow_date |-> config.sow_date,
     kc |-> kc,
     et0_mm_per_day |-> et0,
     soil_moisture |-> soil,
     humidity |-> humidity,
     predicted_rain_tomorrow_mm |-> rain,
     watering_decision |-> text,
     water_amount_liters |-> IntOf(water_amount),
     field_condition |-> condition(soil),
     temperature_warning |-> temp_warn(daily_forecast)]

\* ------------------------------------------------------------------- state

NoCall ==
    [handler |-> "none", sensor |-> NoReading, fetched_weather |-> FALSE,
     computed_water |-> FALSE, inserted |-> FALSE, raised_at |-> 0]

Init ==
    /\ fields = << >>
    /\ decisions = << >>
    /\ response = [handler |-> "none", status |-> 0]
    /\ call = NoCall

\* --------------------------------------------------------------- handlers

\* GET /api/watering_decision with no sensor data: 404, nothing else done.
NoSensorOutcome(sensor) ==
    /\ response' = [handler |-> "watering_decision", status |-> 404,
                    error |-> "No sensor data available"]
    /\ call' = [handler |-> "watering_decision", sensor |-> sensor,
                fetched_weather |-> FALSE, computed_water |-> FALSE,
                inserted |-> FALSE, raised_at |-> 0]
    /\ UNCHANGED <<fields, decisions>>

\* GET /api/watering_decision with sensor data, from the SELECT on `fields`
\* to the return; an uncaught TypeError ends the request with a 500.
DecisionOutcome(sensor, daily_forecast, et0_fetched, kc) ==
    LET soil == sensor.soil_moisture
        humidity == sensor.humidity
        config == FieldConfig(fields)
        et0 == Et0(et0_fetched)
        rain == predicted_rain(daily_forecast)
        stage_text == decision_text(soil, humidity,
                                    today_prec(daily_forecast)[1], rain)
        water_amount == calculate_water_amount(soil, config.area,
                            config.soil_depth, rain, et0, kc, humidity)
        final_text == Reconcile(stage_text, water_amount)
        trace == [handler |-> "watering_decision", sensor |-> sensor,
                  config |-> config, daily_forecast |-> daily_forecast,
                  et0_fetched |-> et0_fetched, et0 |-> et0, kc |-> kc,
                  fetched_weather |-> TRUE]
    IN  IF RuleStageRaises(soil, daily_forecast)
        THEN /\ response' = [handler |-> "watering_decision", status |-> 500,
                             error |-> "Internal Server Error"]
             /\ call' = [computed_water |-> FALSE, inserted |-> FALSE,
                         raised_at |-> 104] @@ trace
             /\ UNCHANGED <<fields, decisions>>
        ELSE /\ decisions' = Append(decisions,
                                DecisionRow(decisions, final_text, water_amount))
             /\ call' = [computed_water |-> TRUE, inserted |-> TRUE,
                         stage_text |-> stage_text, water_amount |-> water_amount,
                         raised_at |-> IF TempWarnRaises(daily_forecast)
                                       THEN 140 ELSE 0] @@ trace
             /\ response' =
                    IF TempWarnRaises(daily_forecast)
                    THEN [handler |-> "watering_decision", status |-> 500,
                          error |-> "Internal Server Error"]
                    ELSE [handler |-> "watering_decision", status |-> 200,
                          result |-> Result(config, et0, kc, soil, humidity, rain,
                                            final_text, water_amount, daily_forecast)]
             /\ UNCHANGED fields

watering_decision ==
    \E sensor \in Sensors :
        IF NoSensorData(sensor)
        THEN NoSensorOutcome(sensor)
        ELSE /\ Len(decisions) < MaxDecisions
             /\ \E daily_forecast \in Forecasts, et0_fetched \in Et0Fetches,
                   kc \in KcValues :
                    DecisionOutcome(sensor, daily_forecast, et0_fetched, kc)

\* form.get(name, current)
FormGet(value, current) == IF value = None THEN current ELSE value[1]

\* The id of `SELECT id FROM fields LIMIT 1`, None when there is no row.
ExistingId(rows) == IF rows # << >> THEN Some(rows[1].id) ELSE None

\* SaveField that inserts a row on every POST.
SaveField_always_inserts(rows, crop, sow_date, area, soil_depth) ==
    Append(rows, [id |-> Len(rows) + 1, crop |-> crop, sow_date |-> sow_date,
                  area |-> area, soil_depth |-> soil_depth])

\* UPDATE fields SET ... WHERE id=? / INSERT INTO fields (...) VALUES (...)
SaveField(rows, crop, sow_date, area, soil_depth) ==
    IF ExistingId(rows) # None
    THEN [i \in DOMAIN rows |->
            IF rows[i].id = ExistingId(rows)[1]
            THEN [id |-> rows[i].id, crop |-> crop, sow_date |-> sow_date,
                  area |-> area, soil_depth |-> soil_depth]
            ELSE rows[i]]
    ELSE Append(rows, [id |-> Len(rows) + 1, crop |-> crop, sow_date |-> sow_date,
                       area |-> area, soil_depth |-> soil_depth])

\* GET /: render the form with the current (or default) configuration.
set_field_GET ==
    LET current == FieldConfig(fields)
    IN  /\ response' = [handler |-> "set_field", status |-> 200, page |-> current]
        /\ call' = [handler |-> "set_field", method |-> "GET"]
        /\ UNCHANGED <<fields, decisions>>

\* POST /: save the submitted configuration and redirect.
set_field_POST ==
    \E form \in Forms :
        LET current == FieldConfig(fields)
        IN  /\ fields' = SaveField(fields,
                                   FormGet(form.crop, current.crop),
                                   FormGet(form.sow_date, current.sow_date),
                                   FormGet(form.area, current.area),
                                   FormGet(form.soil_depth, current.soil_depth))
            /\ response' = [handler |-> "set_field", status |-> 302]
            /\ call' = [handler |-> "set_field", method |-> "POST"]
            /\ UNCHANGED decisions

Next ==
    \/ watering_decision
    \/ set_field_GET
    \/ set_field_POST

Spec == Init /\ [][Next]_vars

\* ------------------------------------------------------------ properties

\* The last request was a watering_decision call that had sensor data.
DecisionCall ==
    /\ call.handler = "watering_decision"
    /\ call.sensor.timestamp # None

\* The last request was a watering_decision call that reached its INSERT;
\* the row it wrote is the last of `decisions`.
Inserted == call.handler = "watering_decision" /\ call.inserted

LastRow == decisions[Len(decisions)]

\* The last request was a watering_decision call that returned its result.
Returned == response.handler = "watering_decision" /\ response.status = 200

CallSoil == call.sensor.soil_moisture

CallHumidity == call.sensor.humidity

\* Today's and tomorrow's rain of the last call.  A call reaches its INSERT
\* with today's entry None only when soil >= moisture_threshold, where
\* today's rain is never read: 0 stands for it there.
CallToday ==
    IF today_prec(call.daily_forecast) = None
    THEN 0
    ELSE today_prec(call.daily_forecast)[1]

CallTomorrow == predicted_rain(call.daily_forecast)

\* C1: when the rule stage's text contains "No watering needed" and the
\* computed water_amount is > 0, the text persisted and the text returned are
\* the deficit warning that embeds the computed liters; and no row of
\* `decisions` pairs a "No watering needed" text with water_amount > 0.
C1_Reconciliation ==
    /\ (Inserted /\ Contains(call.stage_text, NoWateringNeeded)
                 /\ call.water_amount > 0)
        => /\ LastRow.decision =
                <<"Warning: water deficit detected, ",
                  ToString(call.water_amount), " liters needed.">>
           /\ Returned => response.result.watering_decision = LastRow.decision
    /\ \A i \in DOMAIN decisions :
        ~(Contains(decisions[i].decision, NoWateringNeeded)
            /\ decisions[i].water_amount > 0)

C1_Witness ==
    /\ Inserted /\ Returned
    /\ Contains(call.stage_text, NoWateringNeeded)
    /\ call.water_amount > 0

\* C2: a watering_decision call whose sensor reading has no timestamp returns
\* the 'No sensor data available' error with status 404, leaves `decisions`
\* as it was, and fetches no weather and computes no water amount.
C2_NoSensorData ==
    [][(call'.handler = "watering_decision" /\ call'.sensor.timestamp = None)
        => /\ response'.status = 404
           /\ response'.error = "No sensor data available"
           /\ decisions' = decisions
           /\ ~call'.fetched_weather
           /\ ~call'.computed_water]_vars

C2_Witness ==
    /\ call.handler = "watering_decision"
    /\ call.sensor.timestamp = None
    /\ response.status = 404
    /\ Len(decisions) = 1

\* C3: the decisions log is append-only with exactly one row per decision
\* call: every step keeps the rows already written, a watering_decision call
\* that has sensor data appends exactly one row, and a call without sensor
\* data and a set_field request leave the log as it is.
C3_AppendOnly ==
    [][/\ Len(decisions') >= Len(decisions)
       /\ SubSeq(decisions', 1, Len(decisions)) = decisions
       /\ (call'.handler = "watering_decision" /\ call'.sensor.timestamp # None)
            => Len(decisions') = Len(decisions) + 1
       /\ (call'.handler = "watering_decision" /\ call'.sensor.timestamp = None)
            => decisions' = decisions
       /\ call'.handler = "set_field" => decisions' = decisions]_vars

\* The engine's computed water amount for the last call, from its inputs.
CallWaterAmount ==
    calculate_water_amount(CallSoil, call.config.area, call.config.soil_depth,
                           CallTomorrow, call.et0, call.kc, CallHumidity)

\* C4: the water_amount stored in the row and the water_amount_liters
\* returned are both the engine's computed water amount for that call,
\* whichever rule fired and whether or not reconciliation rewrote the text.
C4_LitersAreComputedValue ==
    Inserted =>
        /\ LastRow.water_amount = CallWaterAmount
        /\ Returned => response.result.water_amount_liters = CallWaterAmount

C4_Witness ==
    /\ Inserted /\ Returned
    /\ call.water_amount > 0
    /\ LastRow.decision # call.stage_text

\* The documented decision table: the conditions of rules 1 to 5 in order.
TableConditions(soil, humidity, today, tomorrow) ==
    << soil >= 30,
       today > 3,
       tomorrow > 3 /\ soil >= 10,
       soil < 10 /\ tomorrow > 3,
       humidity < 30 >>

\* The first rule whose condition holds, 6 (the fall-through) when none does.
FirstMatch(conditions) ==
    IF \E i \in DOMAIN conditions : conditions[i]
    THEN CHOOSE i \in DOMAIN conditions :
            conditions[i] /\ \A j \in 1..(i - 1) : ~conditions[j]
    ELSE Len(conditions) + 1

TableTexts ==
    <<TextSufficient, TextRainToday, TextRainTomorrow, TextMinimal,
      TextLowHumidity, TextEmpty>>

\* C5: before reconciliation the decision text is the one of the first rule
\* of the table (thresholds 30, 10 and 0.3) whose condition holds, and the
\* empty text when none does.
C5_RuleTable ==
    Inserted =>
        call.stage_text =
            TableTexts[FirstMatch(TableConditions(CallSoil, CallHumidity,
                                                  CallToday, CallTomorrow))]

C5_Witness ==
    /\ Inserted
    /\ call.stage_text = TextRainTomorrow
    /\ CallSoil = 10

\* C6: when soil is below 10, tomorrow's rain exceeds 0.3 and today's does
\* not, the final text persisted and returned is the 'Minimal watering
\* recommended' text, whatever the computed liters.
C6_MinimalWateringKept ==
    (Inserted /\ CallSoil < 10 /\ CallTomorrow > 3 /\ ~(CallToday > 3))
        => /\ LastRow.decision = TextMinimal
           /\ Returned => response.result.watering_decision = TextMinimal

C6_Witness ==
    /\ Inserted /\ Returned
    /\ call.stage_text = TextMinimal
    /\ call.water_amount > 0

\* C7: whatever the weather gateway returns, a watering_decision call that
\* has sensor data completes with a 200 result and writes its row, using
\* ET0 = 3.0 when none was supplied.
C7_WeatherNeverFails ==
    DecisionCall =>
        /\ response.status = 200
        /\ call.inserted
        /\ call.et0_fetched = None => call.et0 = 30

\* C8: when soil < 30, today's rain <= 0.3, tomorrow's rain <= 0.3 and
\* humidity >= 30, the rule stage sets no text and the text persisted and
\* returned is the empty string, whatever the computed water_amount.
C8_FallThroughEmptyText ==
    (Inserted /\ CallSoil < 30 /\ CallToday <= 3 /\ CallTomorrow <= 3
              /\ CallHumidity >= 30)
        => /\ call.stage_text = << >>
           /\ LastRow.decision = << >>
           /\ Returned => response.result.watering_decision = << >>

C8_Witness ==
    /\ Inserted /\ Returned
    /\ call.stage_text = << >>
    /\ call.water_amount > 0

\* C9: the fields table holds at most one row; once it holds a row every
\* later request leaves it holding that one row (same id); a
\* watering_decision call never changes the table; and with no row a
\* decision call uses crop 'banana', sow_date today, area 10, soil_depth 0.2.
C9_OneFieldConfig ==
    /\ [](Len(fields) <= 1)
    /\ []((DecisionCall /\ fields = << >>) =>
            call.config = [crop |-> "banana", sow_date |-> Today,
                           area |-> 10, soil_depth |-> 200])
    /\ [][/\ Len(fields) = 1 =>
                (Len(fields') = 1 /\ fields'[1].id = fields[1].id)
          /\ call'.handler = "watering_decision" => fields' = fields]_vars

C9_Witness ==
    /\ Len(fields) = 1
    /\ fields[1].crop = "maize"
    /\ Returned
    /\ response.result.crop = "maize"

\* The documented condition label for a soil value.
TableCondition(soil) ==
    IF soil < 10 THEN "Poor - critically low moisture"
    ELSE IF soil < 30 THEN "Fair - moisture below threshold"
    ELSE "Good"

\* C10: the field condition returned is 'Poor' exactly when soil < 10,
\* 'Fair' exactly when 10 <= soil < 30 and 'Good' exactly when soil >= 30,
\* so 'Good' is reported in exactly the calls where rule 1 fired.
C10_FieldCondition ==
    Returned =>
        /\ response.result.field_condition = TableCondition(CallSoil)
        /\ response.result.field_condition = "Good"
            <=> call.stage_text = TextSufficient

C10_Witness ==
    /\ Returned
    /\ response.result.field_condition = "Good"
    /\ call.stage_text = TextSufficient
    /\ response.result.watering_decision # TextSufficient

====
